---- MODULE Spec2Model ----
(***************************************************************************)
(* Knowledge-graph visualisation: the Neo4j export normaliser              *)
(* (transformNeo4jData) and the React/D3 force-graph component             *)
(* (GraphVisualization: load effect, drag handlers, tick handler).         *)
(***************************************************************************)
EXTENDS Integers, Sequences, FiniteSets

VARIABLES
    rawData,    \* argument handed to transformNeo4jData (last response body parsed)
    result,     \* what transformNeo4jData returned (done = FALSE before the call)
    mounted,    \* svgRef.current is the <svg> element (FALSE after unmount: null)
    dataUrl,    \* the dataUrl prop of the last render
    loads,      \* one entry per run of the effect: its url and how far it got
    sims,       \* every d3.forceSimulation created so far, in creation order
    svg,        \* the <g> groups appended to the <svg> element, in DOM order
    events      \* timer and pointer events delivered (counted where they are bounded)

vars == <<rawData, result, mounted, dataUrl, loads, sims, svg, events>>

----------------------------------------------------------------------------
(* Bounds                                                                  *)

MaxRecords == 3
MaxLoads == 2
MaxEvents == 6
MaxLoadEvents == 2
MaxPointers == 2
MaxTicks == 200

----------------------------------------------------------------------------
(* JavaScript values of the raw export                                     *)

Num(n) == [t |-> "number", n |-> n, s |-> ""]
Str(s) == [t |-> "string", n |-> 0, s |-> s]
Undefined == [t |-> "undefined", n |-> 0, s |-> ""]

Rel(src, tgt, ty) ==
    [isNull |-> FALSE, Source |-> src, Target |-> tgt, RelationshipType |-> ty]
NullEntry ==
    [isNull |-> TRUE, Source |-> Undefined, Target |-> Undefined,
     RelationshipType |-> Undefined]

ArrayOf(items) == [isArray |-> TRUE, items |-> items]
NotAnArray == [isArray |-> FALSE, items |-> <<>>]

\* Number.prototype.toString for the naturals of the model
Digit(d) == <<"0", "1", "2", "3", "4", "5", "6", "7", "8", "9">>[d + 1]
RECURSIVE NumToString(_)
NumToString(n) ==
    IF n < 10 THEN Digit(n) ELSE NumToString(n \div 10) \o Digit(n % 10)

\* v.toString(): a number prints its digits, a string is itself, and
\* undefined has no toString (TypeError)
Throws(v) == v.t = "undefined"
toString(v) == IF v.t = "number" THEN NumToString(v.n) ELSE v.s

\* the literal that stands in for an absent RelationshipType
DefaultRelType == "related"

----------------------------------------------------------------------------
(* transformNeo4jData                                                      *)

EmptyGraph == [nodes |-> <<>>, links |-> <<>>]

\* the forEach guard: !rel || typeof rel.Source !== 'number' || ...
IsInvalidRel(rel) ==
    rel.isNull \/ rel.Source.t # "number" \/ rel.Target.t # "number"

\* an add that puts a new element in front
SetAddInFront(set, v) == IF \E i \in 1..Len(set) : set[i] = v THEN set ELSE <<v>> \o set

\* Set.prototype.add on an insertion-ordered set
SetAdd(set, v) == IF \E i \in 1..Len(set) : set[i] = v THEN set ELSE Append(set, v)

RECURSIVE CollectNodeIds(_, _)
CollectNodeIds(items, nodeIds) ==
    IF items = <<>> THEN nodeIds
    ELSE LET rel == Head(items) IN
         IF IsInvalidRel(rel)
         THEN CollectNodeIds(Tail(items), nodeIds)
         ELSE CollectNodeIds(Tail(items),
                             SetAdd(SetAdd(nodeIds, rel.Source.n), rel.Target.n))

MakeNode(id) ==
    [id |-> NumToString(id), label |-> "Node " \o NumToString(id), type |-> "Entity"]

\* the callback of rawData.map: reading a property of null, or calling
\* toString on undefined, throws
LinkThrows(rel) == rel.isNull \/ Throws(rel.Source) \/ Throws(rel.Target)
MakeLink(rel) ==
    [source |-> toString(rel.Source),
     target |-> toString(rel.Target),
     type |-> IF rel.RelationshipType.t = "string" /\ rel.RelationshipType.s # ""
              THEN rel.RelationshipType.s ELSE DefaultRelType]

MapLinks(items) == [i \in 1..Len(items) |-> MakeLink(items[i])]

transformNeo4jData(raw) ==
    IF ~raw.isArray THEN EmptyGraph
    ELSE LET nodeIds == CollectNodeIds(raw.items, <<>>)
             nodes == [i \in 1..Len(nodeIds) |-> MakeNode(nodeIds[i])]
         IN IF \E i \in 1..Len(raw.items) : LinkThrows(raw.items[i])
            THEN EmptyGraph
            ELSE [nodes |-> nodes, links |-> MapLinks(raw.items)]

----------------------------------------------------------------------------
(* Inputs of the normaliser                                                *)

RawEntries ==
    { NullEntry,
      Rel(Num(1), Num(2), Undefined),
      Rel(Num(1), Num(2), Str("KNOWS")),
      Rel(Num(2), Num(1), Undefined),
      Rel(Num(2), Num(3), Undefined),
      Rel(Num(12), Num(12), Undefined),
      Rel(Str("x"), Num(2), Undefined),
      Rel(Num(1), Str("2"), Undefined),
      Rel(Undefined, Num(2), Undefined) }

RECURSIVE SeqsUpTo(_, _)
SeqsUpTo(S, n) ==
    IF n = 0 THEN {<<>>}
    ELSE LET shorter == SeqsUpTo(S, n - 1) IN
         shorter \cup {Append(q, e) : q \in {p \in shorter : Len(p) = n - 1}, e \in S}

RawInputs == {NotAnArray} \cup {ArrayOf(items) : items \in SeqsUpTo(RawEntries, MaxRecords)}

NotCalled == [done |-> FALSE, nodes |-> <<>>, links |-> <<>>]

Transform ==
    /\ ~result.done
    /\ result' = [done |-> TRUE,
                  nodes |-> transformNeo4jData(rawData).nodes,
                  links |-> transformNeo4jData(rawData).links]
    /\ UNCHANGED <<rawData, mounted, dataUrl, loads, sims, svg, events>>

NormInit ==
    /\ rawData \in RawInputs
    /\ result = NotCalled
    /\ mounted = FALSE
    /\ dataUrl = "a"
    /\ loads = <<>>
    /\ sims = <<>>
    /\ svg = <<>>
    /\ events = 0

NormNext == Transform

NormSpec == NormInit /\ [][NormNext]_vars

----------------------------------------------------------------------------
(* d3.forceSimulation as the component uses it.  alpha is kept in          *)
(* thousandths: AlphaScale stands for alpha = 1.                           *)

AlphaScale == 1000
\* simulation.alphaMin(): the stop threshold 0.001
AlphaMin == 1
\* simulation.alphaDecay(): 1 - 0.001^(1/300) = 0.0228, as a fraction
AlphaDecayNum == 228
AlphaDecayDen == 10000
\* simulation.alphaTarget(0.3) of the drag "start" handler
AlphaTargetDrag == 300

\* d.fx = null
Null == -100000

\* d3.forceCenter(width / 2, height / 2)
Centre == <<600, 400>>
\* where the forces can leave a free node
Points == {Centre, <<500, 500>>}
\* where the pointer can be during a drag (event.x, event.y)
PointerPoints == {<<500, 500>>, <<300, 200>>}

\* initializeNodes: nodes without a position are laid out on a phyllotaxis
\* spiral, 10 * sqrt(0.5 + i) from the origin at angle i * pi * (3 - sqrt(5))
InitialX(i) == <<7, -9, 1, 11>>[((i - 1) % 4) + 1]
InitialY(i) == <<0, 8, -16, 15>>[((i - 1) % 4) + 1]

Pointers == 1..MaxPointers
NoGesture == [p \in Pointers |-> 0]

IndexOfId(nodes, id) ==
    IF \E k \in 1..Len(nodes) : nodes[k].id = id
    THEN CHOOSE k \in 1..Len(nodes) : nodes[k].id = id
    ELSE 0

\* forceLink.initialize: find(nodeById, link.source) throws "node not found"
LinksResolve(data) ==
    \A k \in 1..Len(data.links) :
        /\ IndexOfId(data.nodes, data.links[k].source) # 0
        /\ IndexOfId(data.nodes, data.links[k].target) # 0

\* a setup that also raises the target alpha, as the drag "start" handler does
NewSimulationReheated(l, data) ==
    LET n == Len(data.nodes) IN
    [load |-> l,
     nodes |-> data.nodes,
     links |-> <<>>,
     forces |-> FALSE,
     x |-> [k \in 1..n |-> InitialX(k)],
     y |-> [k \in 1..n |-> InitialY(k)],
     fx |-> [k \in 1..n |-> Null],
     fy |-> [k \in 1..n |-> Null],
     alpha |-> AlphaScale,
     alphaTarget |-> AlphaTargetDrag,
     running |-> TRUE,
     gestures |-> NoGesture,
     listening |-> FALSE,
     line |-> <<>>,
     circle |-> <<>>,
     label |-> <<>>]

\* d3.forceSimulation(data.nodes): nodes initialised, alpha 1, timer started.
\* forces, links and the drawn primitives are filled in by the caller.
NewSimulation(l, data) ==
    LET n == Len(data.nodes) IN
    [load |-> l,
     nodes |-> data.nodes,
     links |-> <<>>,
     forces |-> FALSE,
     x |-> [k \in 1..n |-> InitialX(k)],
     y |-> [k \in 1..n |-> InitialY(k)],
     fx |-> [k \in 1..n |-> Null],
     fy |-> [k \in 1..n |-> Null],
     alpha |-> AlphaScale,
     alphaTarget |-> 0,
     running |-> TRUE,
     gestures |-> NoGesture,
     listening |-> FALSE,
     line |-> <<>>,
     circle |-> <<>>,
     label |-> <<>>]

\* the links with source/target replaced by the node they name
ResolvedLinks(data) ==
    [k \in 1..Len(data.links) |->
        [source |-> IndexOfId(data.nodes, data.links[k].source),
         target |-> IndexOfId(data.nodes, data.links[k].target),
         type |-> data.links[k].type]]

Unset == <<Null, Null>>

\* svg.append("g").selectAll(..).data(..).join(..): on a null svgRef.current
\* the selections are empty and nothing is appended
Group(kind, s, count) == [kind |-> kind, sim |-> s, count |-> count]

\* the simulation setup and the drawing, for graph data with nodes
RenderNonEmpty(simsNow, svgNow, isMounted, l, data) ==
    LET n == Len(data.nodes)
        m == Len(data.links)
        s == Len(simsNow) + 1
        created == NewSimulation(l, data)
    IN  IF ~LinksResolve(data)
        THEN [status |-> "error", sims |-> Append(simsNow, created), svg |-> svgNow]
        ELSE [status |-> "rendered",
              sims |-> Append(simsNow,
                  [created EXCEPT
                      !.links = ResolvedLinks(data),
                      !.forces = TRUE,
                      !.listening = TRUE,
                      !.line = IF isMounted THEN [k \in 1..m |-> <<Null, Null, Null, Null>>]
                               ELSE <<>>,
                      !.circle = IF isMounted THEN [k \in 1..n |-> Unset] ELSE <<>>,
                      !.label = IF isMounted THEN [k \in 1..n |-> Unset] ELSE <<>>]),
              svg |-> IF isMounted
                      THEN svgNow \o <<Group("line", s, m), Group("circle", s, n),
                                       Group("text", s, n)>>
                      ELSE svgNow]

\* a render that goes on without the test for an empty node list
RenderDataNoEmptyTest(simsNow, svgNow, isMounted, l, data) ==
    RenderNonEmpty(simsNow, svgNow, isMounted, l, data)

\* from the empty-graph test to the tick listener: the part renderGraph and
\* loadAndRender share, for the graph data
RenderData(simsNow, svgNow, isMounted, l, data) ==
    IF Len(data.nodes) = 0
    THEN [status |-> "empty", sims |-> simsNow, svg |-> svgNow]
    ELSE RenderNonEmpty(simsNow, svgNow, isMounted, l, data)

\* the body of renderGraph after the fetch has resolved with rawData = raw
RenderGraph(simsNow, svgNow, isMounted, l, raw) ==
    RenderData(simsNow, svgNow, isMounted, l, transformNeo4jData(raw))

----------------------------------------------------------------------------
(* The load effect: useEffect(() => { renderGraph() }, [dataUrl])          *)

Urls == {"a", "b"}

\* response: "none" until the fetch has an outcome, then "ok" or "notok" by
\* response.ok, or "failed" where the load ended in the catch before rendering
Fetching(u) == [url |-> u, status |-> "fetching", response |-> "none"]

\* a render with a new dataUrl prop: the effect runs again, with no cleanup
\* of the previous run
SetDataUrl(u) ==
    /\ mounted
    /\ u # dataUrl
    /\ Len(loads) < MaxLoads
    /\ dataUrl' = u
    /\ loads' = Append(loads, Fetching(u))
    /\ UNCHANGED <<rawData, result, mounted, sims, svg, events>>

\* React removes the <svg> and nulls the ref; the effect returned no cleanup
Unmount ==
    /\ mounted
    /\ mounted' = FALSE
    /\ UNCHANGED <<rawData, result, dataUrl, loads, sims, svg, events>>

LoadInputs ==
    { ArrayOf(<<Rel(Num(1), Num(2), Undefined)>>),
      ArrayOf(<<Rel(Num(1), Num(2), Undefined), Rel(Str("x"), Num(2), Undefined)>>),
      ArrayOf(<<NullEntry>>),
      NotAnArray }

\* fetch resolved with response.ok and a JSON body
FetchOk(l, raw) ==
    /\ l \in 1..Len(loads)
    /\ loads[l].status = "fetching"
    /\ LET r == RenderGraph(sims, svg, mounted, l, raw) IN
        /\ loads' = [loads EXCEPT ![l].status = r.status, ![l].response = "ok"]
        /\ sims' = r.sims
        /\ svg' = r.svg
    /\ rawData' = raw
    /\ UNCHANGED <<result, mounted, dataUrl, events>>

\* fetch rejected, response.ok false, or response.json() rejected: the catch
\* logs the error
FetchFail(l) ==
    /\ l \in 1..Len(loads)
    /\ loads[l].status = "fetching"
    /\ loads' = [loads EXCEPT ![l].status = "error", ![l].response = "failed"]
    /\ UNCHANGED <<rawData, result, mounted, dataUrl, sims, svg, events>>

----------------------------------------------------------------------------
(* The TypeScript component: loadAndRender reads {nodes, links} as served  *)

\* what response.json() can resolve to: a graph, or a value without nodes
Body(data) == [hasNodes |-> TRUE, data |-> data]
NoNodesBody == [hasNodes |-> FALSE, data |-> EmptyGraph]

Link(src, tgt) == [source |-> src, target |-> tgt, type |-> DefaultRelType]

Bodies ==
    { Body([nodes |-> <<MakeNode(1), MakeNode(2)>>, links |-> <<Link("1", "2")>>]),
      Body([nodes |-> <<MakeNode(1)>>, links |-> <<Link("1", "9")>>]),
      Body(EmptyGraph),
      NoNodesBody }

\* fetch resolved (ok tells response.ok, which is never read) and
\* response.json() resolved with body; data.nodes.length of a body without
\* nodes throws into the catch
LoadAndRender(l, ok, body) ==
    /\ l \in 1..Len(loads)
    /\ loads[l].status = "fetching"
    /\ LET r == IF body.hasNodes
                THEN RenderData(sims, svg, mounted, l, body.data)
                ELSE [status |-> "error", sims |-> sims, svg |-> svg]
       IN
        /\ loads' = [loads EXCEPT ![l].status = r.status,
                                  ![l].response = IF ok THEN "ok" ELSE "notok"]
        /\ sims' = r.sims
        /\ svg' = r.svg
    /\ UNCHANGED <<rawData, result, mounted, dataUrl, events>>

----------------------------------------------------------------------------
(* Timer and pointer events of one simulation                              *)

Active(sim) == Cardinality({p \in Pointers : sim.gestures[p] # 0})

\* alpha += (alphaTarget - alpha) * alphaDecay
NextAlpha(sim) ==
    sim.alpha + (((sim.alphaTarget - sim.alpha) * AlphaDecayNum) \div AlphaDecayDen)

\* the end of simulation.tick(): a free coordinate moves by its velocity, a
\* pinned one is forced to the pin
Integrate(pin, moved) == IF pin = Null THEN moved ELSE pin

\* a tick listener that updates the lines only
TickHandlerLinesOnly(sim) ==
    [sim EXCEPT
        !.line = [k \in 1..Len(sim.line) |->
                    <<sim.x[sim.links[k].source], sim.y[sim.links[k].source],
                      sim.x[sim.links[k].target], sim.y[sim.links[k].target]>>]]

\* a tick listener that moves the lines and the circles and leaves the labels
TickHandlerLabelsLeft(sim) ==
    [sim EXCEPT
        !.line = [k \in 1..Len(sim.line) |->
                    <<sim.x[sim.links[k].source], sim.y[sim.links[k].source],
                      sim.x[sim.links[k].target], sim.y[sim.links[k].target]>>],
        !.circle = [k \in 1..Len(sim.circle) |-> <<sim.x[k], sim.y[k]>>]]

\* the "tick" listener: links, nodes and labels read the live node records
TickHandler(sim) ==
    [sim EXCEPT
        !.line = [k \in 1..Len(sim.line) |->
                    <<sim.x[sim.links[k].source], sim.y[sim.links[k].source],
                      sim.x[sim.links[k].target], sim.y[sim.links[k].target]>>],
        !.circle = [k \in 1..Len(sim.circle) |-> <<sim.x[k], sim.y[k]>>],
        !.label = [k \in 1..Len(sim.label) |-> <<sim.x[k], sim.y[k]>>]]

\* one timer callback (step): tick(), the "tick" event, then the stop test.
\* to[k] is where the forces and the velocity carry node k if it is free.
Step(sim, to) ==
    LET n == Len(sim.nodes)
        ticked == [sim EXCEPT
            !.alpha = NextAlpha(sim),
            !.x = [k \in 1..n |->
                     Integrate(sim.fx[k], IF sim.forces THEN to[k][1] ELSE sim.x[k])],
            !.y = [k \in 1..n |->
                     Integrate(sim.fy[k], IF sim.forces THEN to[k][2] ELSE sim.y[k])]]
        drawn == IF sim.listening THEN TickHandler(ticked) ELSE ticked
    IN  [drawn EXCEPT !.running = ~(drawn.alpha < AlphaMin)]

\* the timer fires for simulation i; the forces leave free nodes within Pts
Tick(i, Pts) ==
    /\ i \in 1..Len(sims)
    /\ sims[i].running
    /\ \E to \in [1..Len(sims[i].nodes) -> Pts] :
           sims' = [sims EXCEPT ![i] = Step(sims[i], to)]
    /\ UNCHANGED <<rawData, result, mounted, dataUrl, loads, svg>>

\* a "start" handler that raises the target without restart()
OnDragStartNoRestart(sim, p, d) ==
    LET eventActive == Active(sim)
        reheated == IF eventActive = 0
                    THEN [sim EXCEPT !.alphaTarget = AlphaTargetDrag]
                    ELSE sim
    IN  [reheated EXCEPT
            !.gestures[p] = d,
            !.fx[d] = sim.x[d],
            !.fy[d] = sim.y[d]]

\* drag "start": event.active counts the gestures already under way
OnDragStart(sim, p, d) ==
    LET eventActive == Active(sim)
        reheated == IF eventActive = 0
                    THEN [sim EXCEPT !.alphaTarget = AlphaTargetDrag, !.running = TRUE]
                    ELSE sim
    IN  [reheated EXCEPT
            !.gestures[p] = d,
            !.fx[d] = sim.x[d],
            !.fy[d] = sim.y[d]]

\* a "drag" handler that moves every pinned node to the pointer
OnDragMovesEveryPin(sim, p, ex, ey) ==
    [sim EXCEPT
        !.fx = [k \in 1..Len(sim.nodes) |-> IF sim.fx[k] = Null THEN Null ELSE ex],
        !.fy = [k \in 1..Len(sim.nodes) |-> IF sim.fy[k] = Null THEN Null ELSE ey]]

\* drag "drag": the pin follows the pointer
OnDrag(sim, p, ex, ey) ==
    LET d == sim.gestures[p] IN
    [sim EXCEPT !.fx[d] = ex, !.fy[d] = ey]

\* an "end" handler that clears fx and leaves fy
OnDragEndKeepsFy(sim, p) ==
    LET d == sim.gestures[p]
        ended == [sim EXCEPT !.gestures[p] = 0]
        eventActive == Active(ended)
        cooled == IF eventActive = 0 THEN [ended EXCEPT !.alphaTarget = 0] ELSE ended
    IN  [cooled EXCEPT !.fx[d] = Null]

\* an "end" handler that never lowers the target
OnDragEndKeepsTarget(sim, p) ==
    LET d == sim.gestures[p]
        ended == [sim EXCEPT !.gestures[p] = 0]
    IN  [ended EXCEPT !.fx[d] = Null, !.fy[d] = Null]

\* drag "end": event.active counts the gestures still under way
OnDragEnd(sim, p) ==
    LET d == sim.gestures[p]
        ended == [sim EXCEPT !.gestures[p] = 0]
        eventActive == Active(ended)
        cooled == IF eventActive = 0 THEN [ended EXCEPT !.alphaTarget = 0] ELSE ended
    IN  [cooled EXCEPT !.fx[d] = Null, !.fy[d] = Null]

\* pointer p goes down on the circle of node d
DragStart(i, p, d) ==
    /\ i \in 1..Len(sims)
    /\ mounted
    /\ d \in 1..Len(sims[i].circle)
    /\ sims[i].gestures[p] = 0
    /\ sims' = [sims EXCEPT ![i] = OnDragStart(sims[i], p, d)]
    /\ UNCHANGED <<rawData, result, mounted, dataUrl, loads, svg>>

Drag(i, p, pt) ==
    /\ i \in 1..Len(sims)
    /\ sims[i].gestures[p] # 0
    /\ sims' = [sims EXCEPT ![i] = OnDrag(sims[i], p, pt[1], pt[2])]
    /\ UNCHANGED <<rawData, result, mounted, dataUrl, loads, svg>>

DragEnd(i, p) ==
    /\ i \in 1..Len(sims)
    /\ sims[i].gestures[p] # 0
    /\ sims' = [sims EXCEPT ![i] = OnDragEnd(sims[i], p)]
    /\ UNCHANGED <<rawData, result, mounted, dataUrl, loads, svg>>

SimIndex == 1..(MaxLoads + 1)
MaxNodes == 4

TickAny(Pts) == \E i \in SimIndex : Tick(i, Pts)
DragStartAny == \E i \in SimIndex, p \in Pointers, d \in 1..MaxNodes : DragStart(i, p, d)
DragAny(Pts) == \E i \in SimIndex, p \in Pointers, pt \in Pts : Drag(i, p, pt)
DragEndAny == \E i \in SimIndex, p \in Pointers : DragEnd(i, p)

----------------------------------------------------------------------------
(* The mounted component: loads, and a bounded number of events            *)

Init ==
    /\ rawData = NotAnArray
    /\ result = NotCalled
    /\ mounted = TRUE
    /\ dataUrl = "a"
    /\ loads = <<Fetching("a")>>
    /\ sims = <<>>
    /\ svg = <<>>
    /\ events = 0

\* at most max timer and pointer events are delivered
Counted(A, max) == events < max /\ A /\ events' = events + 1

Next ==
    \/ \E u \in Urls : SetDataUrl(u)
    \/ Unmount
    \/ \E l \in 1..MaxLoads, raw \in LoadInputs : FetchOk(l, raw)
    \/ \E l \in 1..MaxLoads : FetchFail(l)
    \/ Counted(TickAny(Points), MaxLoadEvents)
    \/ Counted(DragStartAny, MaxLoadEvents)
    \/ Counted(DragAny(PointerPoints), MaxLoadEvents)
    \/ Counted(DragEndAny, MaxLoadEvents)

Spec == Init /\ [][Next]_vars

\* the TypeScript component in the same surroundings
TsNext ==
    \/ \E u \in Urls : SetDataUrl(u)
    \/ Unmount
    \/ \E l \in 1..MaxLoads, ok \in BOOLEAN, body \in Bodies : LoadAndRender(l, ok, body)
    \/ \E l \in 1..MaxLoads : FetchFail(l)
    \/ Counted(TickAny(Points), MaxLoadEvents)
    \/ Counted(DragStartAny, MaxLoadEvents)
    \/ Counted(DragAny(PointerPoints), MaxLoadEvents)
    \/ Counted(DragEndAny, MaxLoadEvents)

TsSpec == Init /\ [][TsNext]_vars

----------------------------------------------------------------------------
(* One rendered graph, a bounded number of events: every interleaving of   *)
(* ticks and drag events, with every force outcome and pointer position    *)

SimInputs ==
    { ArrayOf(<<Rel(Num(1), Num(2), Undefined)>>),
      ArrayOf(<<Rel(Num(12), Num(12), Str("SELF"))>>) }

Rendered(raw) ==
    /\ rawData = raw
    /\ result = NotCalled
    /\ mounted = TRUE
    /\ dataUrl = "a"
    /\ events = 0
    /\ LET r == RenderGraph(<<>>, <<>>, TRUE, 1, raw) IN
        /\ loads = <<[url |-> "a", status |-> r.status, response |-> "ok"]>>
        /\ sims = r.sims
        /\ svg = r.svg

DragInit == \E raw \in SimInputs : Rendered(raw)

DragNext ==
    \/ Counted(TickAny(Points), MaxEvents)
    \/ Counted(DragStartAny, MaxEvents)
    \/ Counted(DragAny(PointerPoints), MaxEvents)
    \/ Counted(DragEndAny, MaxEvents)

DragSpec == DragInit /\ [][DragNext]_vars

----------------------------------------------------------------------------
(* One rendered graph, run until it settles, any number of drags: the      *)
(* forces gather the free nodes at the centre, the pointer drags to one    *)
(* place                                                                   *)

SimInit == Rendered(ArrayOf(<<Rel(Num(1), Num(2), Undefined)>>))

SimTick == TickAny({Centre}) /\ UNCHANGED events

SimNext ==
    \/ SimTick
    \/ DragStartAny /\ UNCHANGED events
    \/ DragAny({<<300, 200>>}) /\ UNCHANGED events
    \/ DragEndAny /\ UNCHANGED events

SimSpec == SimInit /\ [][SimNext]_vars

\* the timer fires for as long as it is running
FairSimSpec == SimSpec /\ WF_vars(SimTick)

----------------------------------------------------------------------------
(* One rendered graph left alone: the timer ticks, nobody drags            *)

DecayInputs ==
    SimInputs \cup
    { ArrayOf(<<Rel(Num(1), Num(2), Undefined), Rel(Num(2), Num(3), Undefined)>>) }

DecayInit == \E raw \in DecayInputs : Rendered(raw)

DecayNext == Counted(TickAny(Points), MaxTicks)

DecaySpec == DecayInit /\ [][DecayNext]_vars

----------------------------------------------------------------------------
(* Normaliser claims                                                       *)

ValidRecords(raw) == {i \in 1..Len(raw.items) : ~IsInvalidRel(raw.items[i])}
NodeIdSet(g) == {g.nodes[i].id : i \in 1..Len(g.nodes)}

\* C1: the number of links returned equals the number of records whose
\* Source and Target are both numbers (a malformed record contributes none)
C1_LinkCountIsValidCount ==
    result.done => Len(result.links) = Cardinality(ValidRecords(rawData))

\* C2: when the array holds at least one valid record, malformed entries do
\* not abort: the node set is exactly the endpoints of the valid records
C2_MalformedNeverAborts ==
    (result.done /\ rawData.isArray /\ ValidRecords(rawData) # {}) =>
        NodeIdSet(result) =
            UNION {{NumToString(rawData.items[i].Source.n),
                    NumToString(rawData.items[i].Target.n)} :
                   i \in ValidRecords(rawData)}

\* C3: every returned link has its source and its target among the ids of
\* the returned nodes
C3_LinkEndpointsAreNodes ==
    result.done =>
        \A i \in 1..Len(result.links) :
            /\ result.links[i].source \in NodeIdSet(result)
            /\ result.links[i].target \in NodeIdSet(result)

\* the endpoints of the valid records in scanning order: record r gives
\* position 2r (Source) and 2r + 1 (Target)
EndpointAt(raw, pos) ==
    LET rel == raw.items[pos \div 2] IN
    IF pos % 2 = 0 THEN NumToString(rel.Source.n) ELSE NumToString(rel.Target.n)
Positions(raw) == {2 * r + side : r \in ValidRecords(raw), side \in {0, 1}}
PositionsOf(raw, id) == {pos \in Positions(raw) : EndpointAt(raw, pos) = id}
FirstPosition(raw, id) ==
    CHOOSE pos \in PositionsOf(raw, id) : \A other \in PositionsOf(raw, id) : pos <= other

\* C15: the returned node ids are pairwise distinct, each is the string
\* form of an endpoint of a record with numeric Source and Target, and every
\* such endpoint is the id of exactly one returned node
C15_NodeIdsUniqueFromValid ==
    result.done =>
        /\ \A i, j \in 1..Len(result.nodes) :
               i # j => result.nodes[i].id # result.nodes[j].id
        /\ \A i \in 1..Len(result.nodes) : PositionsOf(rawData, result.nodes[i].id) # {}
        /\ \A pos \in Positions(rawData) :
               Cardinality({i \in 1..Len(result.nodes) :
                               result.nodes[i].id = EndpointAt(rawData, pos)}) = 1

\* C16: the returned nodes are in the order in which their ids are first
\* met when the records are scanned in order, Source before Target
C16_NodesInFirstEncounterOrder ==
    result.done =>
        \A i, j \in 1..Len(result.nodes) :
            i < j => /\ PositionsOf(rawData, result.nodes[i].id) # {}
                     /\ PositionsOf(rawData, result.nodes[j].id) # {}
                     /\ FirstPosition(rawData, result.nodes[i].id)
                            < FirstPosition(rawData, result.nodes[j].id)

\* C16 witness: records {2,3} then {1,2} returned as 2, 3, 1, which is not
\* the sorted order
C16_Witness ==
    /\ result.done
    /\ Len(result.nodes) = 3
    /\ result.nodes[1].id = "2" /\ result.nodes[2].id = "3" /\ result.nodes[3].id = "1"
    /\ Len(result.links) = 2

----------------------------------------------------------------------------
(* Drag and tick claims (one rendered graph)                               *)

Pinned(sim, k) == sim.fx[k] # Null /\ sim.fy[k] # Null
Settled(sim) == ~sim.running /\ sim.alpha < AlphaMin

\* C4: on every tick, the circle and the label of a pinned node are written
\* with exactly the pinned value, wherever the forces would carry the node
C4_PinnedRenderedAtPin ==
    [][\A i \in SimIndex : Tick(i, Points) =>
          \A k \in 1..Len(sims[i].nodes) :
              Pinned(sims[i], k) =>
                  /\ sims'[i].circle[k] = <<sims[i].fx[k], sims[i].fy[k]>>
                  /\ sims'[i].label[k] = <<sims[i].fx[k], sims[i].fy[k]>>]_vars

\* C4 witness: a dragged node drawn at the pointer position of a drag-move
\* while another node is where the forces left it
C4_Witness ==
    \E k, j \in 1..Len(sims[1].nodes) :
        /\ sims[1].gestures # NoGesture
        /\ sims[1].fx[k] = 300 /\ sims[1].fy[k] = 200
        /\ sims[1].circle[k] = <<300, 200>>
        /\ sims[1].label[k] = <<300, 200>>
        /\ j # k /\ ~Pinned(sims[1], j) /\ <<sims[1].x[j], sims[1].y[j]>> \in Points

\* C5 as claimed: right after any release the node is at the pinned value
\* the release cleared (the last pointer position), and the pin is cleared
C5_ReleasedAtLastPointer ==
    [][\A i \in SimIndex, p \in Pointers : DragEnd(i, p) =>
          LET d == sims[i].gestures[p] IN
          /\ Pinned(sims[i], d) =>
                 /\ sims'[i].x[d] = sims[i].fx[d]
                 /\ sims'[i].y[d] = sims[i].fy[d]
          /\ sims'[i].fx[d] = Null
          /\ sims'[i].fy[d] = Null]_vars

\* C5 amended: the release clears the pin and leaves x,y where the last
\* tick put them; that is the last pinned value when the node was drawn
\* there by a tick that ran after the pin was last written
C5_ReleasedWhereLastTickLeftIt ==
    [][\A i \in SimIndex, p \in Pointers : DragEnd(i, p) =>
          LET d == sims[i].gestures[p] IN
          /\ sims'[i].fx[d] = Null
          /\ sims'[i].fy[d] = Null
          /\ sims'[i].x[d] = sims[i].x[d]
          /\ sims'[i].y[d] = sims[i].y[d]
          /\ sims[i].circle[d] # Unset =>
                 <<sims'[i].x[d], sims'[i].y[d]>> = sims[i].circle[d]
          /\ (Pinned(sims[i], d) /\ sims[i].circle[d] = <<sims[i].fx[d], sims[i].fy[d]>>) =>
                 /\ sims'[i].x[d] = sims[i].fx[d]
                 /\ sims'[i].y[d] = sims[i].fy[d]]_vars

\* C5 witness: a released node, no drag under way, resting at a position
\* only a pointer can give
C5_Witness ==
    \E k \in 1..Len(sims[1].nodes) :
        /\ sims[1].gestures = NoGesture
        /\ ~Pinned(sims[1], k)
        /\ sims[1].x[k] = 300 /\ sims[1].y[k] = 200
        /\ sims[1].running

\* C9: while any drag gesture is active the target alpha is 0.3 and the
\* timer runs, and no tick during a drag takes alpha below the threshold
C9_DragKeepsEngineRunning ==
    /\ [](\A i \in 1..Len(sims) : Active(sims[i]) > 0 =>
             sims[i].alphaTarget = AlphaTargetDrag /\ sims[i].running)
    /\ [][\A i \in SimIndex : (Tick(i, {Centre}) /\ Active(sims[i]) > 0) =>
             sims'[i].alpha >= AlphaMin /\ sims'[i].running]_vars

\* C9 witness: a drag that began on a settled engine, one tick later
C9_Witness ==
    /\ Active(sims[1]) > 0
    /\ sims[1].running
    /\ sims[1].alpha = (AlphaTargetDrag * AlphaDecayNum) \div AlphaDecayDen

\* C10: with no drag active the target alpha is 0; from there the engine
\* settles unless a drag starts; and a settled engine changes nothing
C10_SettlesAfterLastDrag ==
    /\ [](Active(sims[1]) = 0 => sims[1].alphaTarget = 0)
    /\ (Active(sims[1]) = 0) ~> (Settled(sims[1]) \/ Active(sims[1]) > 0)
    /\ [][(Settled(sims[1]) /\ Active(sims'[1]) = 0) => sims'[1] = sims[1]]_vars

\* C10 witness: the last drag has just ended on a running engine: target
\* alpha back at 0, the released node still where the pointer left it
C10_Witness ==
    /\ Active(sims[1]) = 0
    /\ sims[1].alphaTarget = 0
    /\ sims[1].running
    /\ sims[1].alpha < AlphaTargetDrag
    /\ \E k \in 1..Len(sims[1].nodes) :
           ~Pinned(sims[1], k) /\ sims[1].x[k] = 300 /\ sims[1].y[k] = 200

\* C12: a drag-start, drag-move or drag-end on a node leaves the fx/fy of
\* every other node as they were, also while another node is being dragged
C12_DragTouchesOwnPinOnly ==
    [][\A i \in 1..Len(sims), p \in Pointers, d \in 1..MaxNodes :
          (\/ DragStart(i, p, d)
           \/ (sims[i].gestures[p] = d /\ \E pt \in PointerPoints : Drag(i, p, pt))
           \/ (sims[i].gestures[p] = d /\ DragEnd(i, p)))
          => \A k \in 1..Len(sims[i].nodes) :
                 k # d => /\ sims'[i].fx[k] = sims[i].fx[k]
                          /\ sims'[i].fy[k] = sims[i].fy[k]]_vars

\* C12 witness: two nodes dragged at the same time by two pointers, each
\* pinned at its own pointer position
C12_Witness ==
    /\ Len(sims[1].nodes) = 2
    /\ sims[1].gestures[1] # 0 /\ sims[1].gestures[2] # 0
    /\ sims[1].gestures[1] # sims[1].gestures[2]
    /\ <<sims[1].fx[sims[1].gestures[1]], sims[1].fy[sims[1].gestures[1]]>> = <<300, 200>>
    /\ <<sims[1].fx[sims[1].gestures[2]], sims[1].fy[sims[1].gestures[2]]>> = <<500, 500>>

\* C19: when a tick has been handled, every circle and label is at its
\* node's current x,y and every line runs between the current x,y of its
\* source and target node
C19_PrimitivesFollowTick ==
    [][\A i \in 1..Len(sims) : Tick(i, Points) =>
          LET after == sims'[i] IN
          /\ \A k \in 1..Len(after.nodes) :
                 /\ after.circle[k] = <<after.x[k], after.y[k]>>
                 /\ after.label[k] = <<after.x[k], after.y[k]>>
          /\ \A k \in 1..Len(after.links) :
                 after.line[k] = <<after.x[after.links[k].source],
                                   after.y[after.links[k].source],
                                   after.x[after.links[k].target],
                                   after.y[after.links[k].target]>>]_vars

\* C19 witness: after a tick that moved the two nodes apart, the line runs
\* from one to the other and circles and labels are where the nodes are
C19_Witness ==
    /\ Len(sims[1].nodes) = 2
    /\ <<sims[1].x[1], sims[1].y[1]>> = <<600, 400>>
    /\ <<sims[1].x[2], sims[1].y[2]>> = <<500, 500>>
    /\ sims[1].line[1] = <<600, 400, 500, 500>>
    /\ sims[1].circle = <<<<600, 400>>, <<500, 500>>>>
    /\ sims[1].label = sims[1].circle
    /\ events >= 2

\* C20: in every state a node is pinned (fx or fy set) exactly when a drag
\* gesture on that node is under way; with no gesture no node is pinned
C20_PinnedIffDragged ==
    \A i \in 1..Len(sims) : \A k \in 1..Len(sims[i].nodes) :
        (sims[i].fx[k] # Null \/ sims[i].fy[k] # Null)
            <=> (\E p \in Pointers : sims[i].gestures[p] = k)

----------------------------------------------------------------------------
(* Decay claims (no drag)                                                  *)

\* alpha after k undisturbed ticks from alpha = 1, and the number of ticks
\* until alpha is below the threshold: functions of the decay factor and
\* the threshold alone
DecayOnce(alpha) == alpha + (((0 - alpha) * AlphaDecayNum) \div AlphaDecayDen)

RECURSIVE Decayed(_, _)
Decayed(alpha, k) ==
    IF k = 0 THEN alpha
    ELSE IF k = 1 THEN DecayOnce(alpha)
    ELSE LET half == Decayed(alpha, k \div 2) IN
         IF half < AlphaMin THEN half ELSE Decayed(half, k - (k \div 2))

SettleTicks ==
    CHOOSE k \in 1..MaxTicks :
        Decayed(AlphaScale, k) < AlphaMin /\ Decayed(AlphaScale, k - 1) >= AlphaMin

\* C11: with no drag, alpha starts at 1 and strictly decreases on every
\* tick; whatever the graph and wherever the forces move the nodes, alpha
\* after k ticks is the same function of k, the timer runs exactly until
\* tick number SettleTicks, and after that nothing changes any more
C11_AlphaDecaysToStop ==
    /\ [](\A i \in 1..Len(sims) :
             /\ events = 0 => sims[i].alpha = AlphaScale
             /\ sims[i].alpha = Decayed(AlphaScale, events)
             /\ sims[i].running <=> events < SettleTicks)
    /\ [][\A i \in SimIndex : Tick(i, Points) => sims'[i].alpha < sims[i].alpha]_vars
    /\ [][(\A i \in 1..Len(sims) : ~sims[i].running) => UNCHANGED sims]_vars

\* C11 witness: the three-node graph stopped at tick SettleTicks, its
\* nodes moved by the forces
C11_Witness ==
    /\ Len(sims[1].nodes) = 3
    /\ events = SettleTicks
    /\ ~sims[1].running
    /\ sims[1].alpha < AlphaMin
    /\ sims[1].x[3] = 500

----------------------------------------------------------------------------
(* Load lifecycle claims                                                   *)

CountOf(kind) ==
    LET RECURSIVE Sum(_)
        Sum(k) == IF k = 0 THEN 0
                  ELSE Sum(k - 1) + (IF svg[k].kind = kind THEN svg[k].count ELSE 0)
    IN Sum(Len(svg))

\* C6: a fetch that resolves after a newer load has started creates no
\* simulation and no primitives
C6_StaleLoadNeverCommits ==
    [][\A l \in 1..MaxLoads, raw \in LoadInputs :
          (FetchOk(l, raw) /\ l < Len(loads)) => (sims' = sims /\ svg' = svg)]_vars

\* C7: the simulation of a rendered graph delivers tick events only while
\* the view is mounted and no newer load has started
C7_OldSimulationStopped ==
    [][\A i \in SimIndex :
          (Tick(i, Points) /\ sims[i].listening /\ sims[i].circle # <<>>) =>
              (mounted /\ sims[i].load = Len(loads))]_vars

\* C13: a load whose graph has a link endpoint that is no node id is
\* rejected as a whole: it is logged, adds no primitives, and leaves no
\* simulation of that load running
C13_UnresolvedLinkRejectsLoad ==
    [][\A l \in 1..MaxLoads, raw \in LoadInputs :
          (/\ FetchOk(l, raw)
           /\ transformNeo4jData(raw).nodes # <<>>
           /\ ~LinksResolve(transformNeo4jData(raw)))
          => /\ loads'[l].status = "error"
             /\ svg' = svg
             /\ \A i \in 1..Len(sims') : sims'[i].load = l => ~sims'[i].running]_vars

\* C14: a load whose fetch failed or was answered with a non-success
\* status has created no simulation and no primitives
C14_FailedFetchRendersNothing ==
    \A l \in 1..Len(loads) :
        loads[l].response \in {"failed", "notok"} =>
            /\ \A i \in 1..Len(sims) : sims[i].load # l
            /\ \A g \in 1..Len(svg) : sims[svg[g].sim].load # l

\* C17: a body that is not an array is normalised to the empty graph, and
\* the load that received it creates no simulation and draws nothing
C17_NonArrayRendersNothing ==
    [][\A l \in 1..MaxLoads :
          FetchOk(l, NotAnArray) =>
              /\ transformNeo4jData(NotAnArray) = EmptyGraph
              /\ loads'[l].status = "empty"
              /\ sims' = sims
              /\ svg' = svg]_vars

\* C17 witness: a load answered with a non-array body has ended, with no
\* simulation and an empty surface
C17_Witness ==
    /\ rawData = NotAnArray
    /\ \E l \in 1..Len(loads) : loads[l].status = "empty" /\ loads[l].response = "ok"
    /\ sims = <<>>
    /\ svg = <<>>

\* C8: the surface holds one circle and one label per node and one line per
\* link of the graph rendered last, and nothing else
C8_OnePrimitivePerEntity ==
    svg # <<>> =>
        LET cur == sims[svg[Len(svg)].sim] IN
        /\ CountOf("circle") = Len(cur.nodes)
        /\ CountOf("text") = Len(cur.nodes)
        /\ CountOf("line") = Len(cur.links)

====
